---- MODULE Spec2Model ----
(***************************************************************************)
(* Model of src/src/functionParser.ts: the FunctionParser constructor, its  *)
(* reactive pass (buildReactiveFunctions), its endpoint pass                *)
(* (buildRestfulApi / buildEndpoint), and the namespace, routers and        *)
(* Application they write.                                                  *)
(*                                                                         *)
(* Strings are TLA+ strings; the string functions of the source (parse,     *)
(* split, replace, template literals) are computed character by character. *)
(* `verbose` only guards console.log calls and is not modelled.            *)
(***************************************************************************)
EXTENDS Integers, Sequences, FiniteSets, TLC

\* Bounds on the number of files the two glob.sync calls return.
MaxFunctionFiles == 2
MaxApiFiles == 3

(***************************************************************************)
(* String helpers (JavaScript String / node path semantics).               *)
(***************************************************************************)

\* s.charAt(i - 1): the i-th character, 1-based.
CharAt(s, i) == SubSeq(s, i, i)

\* s.indexOf(pat) + 1: the position of the first occurrence of pat, 0 if none.
IndexOf(s, pat) ==
  LET hits == {i \in 1..(Len(s) - Len(pat) + 1) : SubSeq(s, i, i + Len(pat) - 1) = pat}
  IN IF hits = {} THEN 0 ELSE CHOOSE i \in hits : \A j \in hits : i <= j

\* s.lastIndexOf(c) + 1 for a one-character c, 0 if none.
LastIndexOf(s, c) ==
  LET hits == {i \in 1..Len(s) : CharAt(s, i) = c}
  IN IF hits = {} THEN 0 ELSE CHOOSE i \in hits : \A j \in hits : i >= j

\* s.includes(pat)
Contains(s, pat) == IndexOf(s, pat) # 0

\* s.replace(pat, ''): a string pattern replaces its FIRST occurrence only.
Replace(s, pat) ==
  LET i == IndexOf(s, pat)
  IN IF i = 0 THEN s
     ELSE SubSeq(s, 1, i - 1) \o SubSeq(s, i + Len(pat), Len(s))

\* s.split(sep) for a one-character sep: "" splits to [""].
RECURSIVE Split(_, _)
Split(s, sep) ==
  LET i == IndexOf(s, sep)
  IN IF i = 0 THEN <<s>>
     ELSE <<SubSeq(s, 1, i - 1)>> \o Split(SubSeq(s, i + 1, Len(s)), sep)

\* path.parse(file).dir (posix): all before the last '/', '/' for a file of the root.
ParseDir(file) ==
  LET k == LastIndexOf(file, "/")
  IN IF k = 0 THEN ""
     ELSE IF k = 1 THEN "/"
     ELSE SubSeq(file, 1, k - 1)

\* path.parse(file).base
ParseBase(file) == SubSeq(file, LastIndexOf(file, "/") + 1, Len(file))

\* path.parse(file).name: the base without its extension (from the last '.',
\* unless that dot starts the base).
ParseName(file) ==
  LET b == ParseBase(file)
      d == LastIndexOf(b, ".")
  IN IF d <= 1 \/ b = ".." THEN b ELSE SubSeq(b, 1, d - 1)

(***************************************************************************)
(* The environment: the files glob.sync can find and what require() loads. *)
(***************************************************************************)

\* A value stored in the namespace: a member exported by a module, a value
\* the caller put there, or an adapter returned by functions.https.onRequest.
Export(id) == [kind |-> "export", of |-> id, n |-> 0]
CallerValue(id) == [kind |-> "caller", of |-> id, n |-> 0]
Adapter(k) == [kind |-> "adapter", of |-> "app", n |-> k]

\* An object without own properties: {} and the spread of undefined.
NoMembers == [m \in {} |-> Export("")]

\* The props.rootPath values tried: missing, absolute, relative.
RootPaths == {"", "/r", "."}

\* The *.function.js files, and the members each module exports once loaded.
FunctionFilesOnDisk ==
  { "/r/users/created.function.js", "/r/users/deleted.function.js",
    "/r/billing/created.function.js", "./created.function.js" }

FunctionModule(file) ==
  CASE file = "/r/users/created.function.js" ->
         ("onUserCreated" :> Export("users/created.onUserCreated"))
    [] file = "/r/users/deleted.function.js" ->
         ("onUserDeleted" :> Export("users/deleted.onUserDeleted")) @@
         ("onUserCreated" :> Export("users/deleted.onUserCreated"))
    [] file = "/r/billing/created.function.js" ->
         ("api" :> Export("billing/created.api"))
    [] file = "./created.function.js" ->
         ("onRootCreated" :> Export("created.onRootCreated"))
    [] OTHER -> NoMembers

\* The *.endpoint.js files, and the default export of each once loaded:
\* defined = FALSE is a module without default export; name <<>> is no name;
\* an option that is absent is falsy, middlewares absent is [].
ApiFilesOnDisk ==
  { "/r/billing/invoices.endpoint.js", "/r/billing/refunds.endpoint.js",
    "/r/users/api/avatar.endpoint.js", "/r/users/api/head.endpoint.js",
    "/r/a.endpoint.b.endpoint.js",
    "./ping.endpoint.js", "./broken.endpoint.js" }

Descriptor(name, requestType, cors, upload, middlewares) ==
  [defined |-> TRUE, name |-> name, requestType |-> requestType,
   options |-> [enableCors |-> cors, enableFileUpload |-> upload,
                middlewares |-> middlewares]]

EndpointModule(file) ==
  CASE file = "/r/billing/invoices.endpoint.js" ->
         Descriptor(<<>>, "GET", FALSE, FALSE, <<>>)
    [] file = "/r/billing/refunds.endpoint.js" ->
         Descriptor(<<"invoices">>, "POST", TRUE, FALSE, <<>>)
    [] file = "/r/users/api/avatar.endpoint.js" ->
         Descriptor(<<"">>, "PUT", FALSE, TRUE, <<"auth">>)
    [] file = "/r/users/api/head.endpoint.js" ->
         Descriptor(<<>>, "HEAD", TRUE, FALSE, <<>>)
    [] file = "/r/a.endpoint.b.endpoint.js" ->
         Descriptor(<<>>, "DELETE", FALSE, FALSE, <<>>)
    [] file = "./ping.endpoint.js" ->
         Descriptor(<<"ping">>, "PATCH", FALSE, FALSE, <<>>)
    [] OTHER ->
         [defined |-> FALSE, name |-> <<>>, requestType |-> "",
          options |-> [enableCors |-> FALSE, enableFileUpload |-> FALSE,
                       middlewares |-> <<>>]]

\* require(file) resolves an absolute path as it is and a './' path against
\* the directory of functionParser.js, whereas glob.sync listed the file
\* against process.cwd(): a relative file is found only when the two
\* directories are the same.
Resolves(file, libraryInCwd) == SubSeq(file, 1, 1) = "/" \/ libraryInCwd

\* The first line of the Error of a require that finds no module.
CannotFindModule(file) == "Cannot find module '" \o file \o "'"

\* require(file) of a *.function.js file: the message thrown ("" when the
\* module loads) and the members it exports.
Require(file, libraryInCwd) ==
  IF Resolves(file, libraryInCwd)
  THEN [thrown |-> "", module |-> FunctionModule(file)]
  ELSE [thrown |-> CannotFindModule(file), module |-> NoMembers]

\* require(file).default of a *.endpoint.js file: the message thrown ("" when
\* the module loads) and the descriptor.
RequireDefault(file, libraryInCwd) ==
  IF Resolves(file, libraryInCwd)
  THEN [thrown |-> "", endpoint |-> EndpointModule(file)]
  ELSE [thrown |-> CannotFindModule(file), endpoint |-> EndpointModule("")]

\* The namespace object the caller passes as props.exports.
InitialNamespace ==
  ("legacy" :> ("keep" :> CallerValue("legacy.keep"))) @@
  ("billing" :> (("api" :> CallerValue("billing.api")) @@
                 ("old" :> CallerValue("billing.old"))))

\* The values of process.env.FUNCTION_NAME: unset, empty, set.
FunctionNameEnv == {<<>>, <<"">>, <<"created">>}

\* props.options: absent (<<>>) or an object with the four flags.
OptionsInputs ==
  {<<>>} \cup
  {<<o>> : o \in [enableCors : BOOLEAN, groupByFolder : BOOLEAN,
                  buildReactive : BOOLEAN, buildEndpoints : BOOLEAN]}

\* The sequences without repetition of at most n elements of S.
Orderings(S, n) ==
  {s \in UNION {[1..k -> S] : k \in 0..n} :
     \A i, j \in DOMAIN s : i # j => s[i] # s[j]}

\* s.endsWith(suffix)
EndsWith(s, suffix) ==
  Len(s) >= Len(suffix) /\ SubSeq(s, Len(s) - Len(suffix) + 1, Len(s)) = suffix

\* glob.sync(`${root}/**/*${suffix}`): some of the matching files under root,
\* in the order the directory listing yields them.
GlobSync(disk, root, suffix, max) ==
  Orderings({f \in disk : /\ Len(f) > Len(root)
                          /\ SubSeq(f, 1, Len(root) + 1) = root \o "/"
                          /\ EndsWith(f, suffix)}, max)

(***************************************************************************)
(* The pure parts of the two passes.                                       *)
(***************************************************************************)

\* new Error('rootPath is required to find the functions.')
RootPathMessage == "rootPath is required to find the functions."

\* The first line of the Error of buildEndpoint's default case.
UnsupportedMessage == "A unsupported RequestType was defined for a Endpoint."

\* The TypeError of reading endpoint.name when the module has no default export.
TypeErrorMessage == "Cannot read properties of undefined (reading 'name')"

\* The Error buildRestfulApi throws in place of whatever buildEndpoint threw.
WrappedMessage(file, groupName) ==
  "Restful Endpoints - Failed to add the endpoint defined in " \o file \o
  " to the " \o groupName \o " Api."

\* The members of enum RequestType that the switch of buildEndpoint handles.
RequestType == {"GET", "POST", "PUT", "DELETE", "PATCH"}

\* groupByFolder ? directories[length - 2] || '' : directories[length - 1] || ''
\* (an index before the first element reads undefined).
GroupName(file, groupByFolder) ==
  LET directories == Split(ParseDir(file), "/")
      idx == IF groupByFolder THEN Len(directories) - 1 ELSE Len(directories)
  IN IF idx >= 1 THEN directories[idx] ELSE ""

\* filePath.name.replace('.function', '')
FunctionName(file) == Replace(ParseName(file), ".function")

\* Faulty variant of Selected: only an unset variable selects every file
\* (process.env.FUNCTION_NAME === undefined || ...), an empty one does not.
Selected_EmptyIsSet(env, functionName) ==
  \/ env = <<>>
  \/ env[1] = functionName

\* !process.env.FUNCTION_NAME || process.env.FUNCTION_NAME === functionName
Selected(env, functionName) ==
  \/ env = <<>>
  \/ env[1] = ""
  \/ env[1] = functionName

\* Faulty variant of MergeExports: the group is replaced by the module's
\* members (this.exports[g] = { ...require(file) }).
MergeExports_Replace(namespace, groupName, module) ==
  (groupName :> module) @@ namespace

\* this.exports[g] = { ...this.exports[g], ...require(file) }, after
\* this.exports[g] = {} when it was missing.
MergeExports(namespace, groupName, module) ==
  LET current == IF groupName \in DOMAIN namespace
                 THEN namespace[groupName] ELSE NoMembers
  IN (groupName :> (module @@ current)) @@ namespace

\* Faulty variant of PublishApi: the group is replaced by its api entry
\* (this.exports[g] = { api: functions.https.onRequest(app) }).
PublishApi_Wholesale(namespace, groupName, k) ==
  (groupName :> ("api" :> Adapter(k))) @@ namespace

\* this.exports[g] = { ...this.exports[g], api: functions.https.onRequest(app) };
\* k numbers the onRequest calls, each of which returns a new function.
PublishApi(namespace, groupName, k) ==
  LET current == IF groupName \in DOMAIN namespace
                 THEN namespace[groupName] ELSE NoMembers
  IN (groupName :> (("api" :> Adapter(k)) @@ current)) @@ namespace

\* The layers a Router keeps in registration order.
CorsLayer ==
  [kind |-> "cors", method |-> "", path |-> "", middlewares |-> <<>>, handler |-> ""]
FileUploadLayer ==
  [kind |-> "fileUpload", method |-> "", path |-> "", middlewares |-> <<>>,
   handler |-> ""]
RouteLayer(method, path, middlewares, handler) ==
  [kind |-> "route", method |-> method, path |-> path,
   middlewares |-> middlewares, handler |-> handler]

\* endpoint.name || filePath.name.replace('.endpoint', '')
EndpointName(endpoint, file) ==
  IF endpoint.name # <<>> /\ endpoint.name[1] # ""
  THEN endpoint.name[1]
  ELSE Replace(ParseName(file), ".endpoint")

\* `/${groupName}/${name}`
RoutePath(groupName, name) == "/" \o groupName \o "/" \o name

\* Faulty variant of BuildEndpoint: the POST case calls router.get.
BuildEndpoint_PostCallsGet(file, groupName, router, enableCors, libraryInCwd) ==
  LET loaded == RequireDefault(file, libraryInCwd)
      endpoint == loaded.endpoint
  IN IF loaded.thrown # ""
     THEN [router |-> router, thrown |-> loaded.thrown]
     ELSE IF ~endpoint.defined
     THEN [router |-> router, thrown |-> TypeErrorMessage]
     ELSE
       LET name == EndpointName(endpoint, file)
           r1 == IF enableCors THEN Append(router, CorsLayer)
                 ELSE IF endpoint.options.enableCors THEN Append(router, CorsLayer)
                 ELSE router
           r2 == IF endpoint.options.enableFileUpload
                 THEN Append(r1, FileUploadLayer) ELSE r1
           method == IF endpoint.requestType = "POST" THEN "GET"
                     ELSE endpoint.requestType
       IN IF endpoint.requestType \in RequestType
          THEN [router |-> Append(r2, RouteLayer(method,
                                                 RoutePath(groupName, name),
                                                 endpoint.options.middlewares,
                                                 file)),
                thrown |-> ""]
          ELSE [router |-> r2, thrown |-> UnsupportedMessage]

\* Faulty variant of BuildEndpoint: the route is registered before the
\* router.use calls, so the middleware follows it.
BuildEndpoint_RouteFirst(file, groupName, router, enableCors, libraryInCwd) ==
  LET loaded == RequireDefault(file, libraryInCwd)
      endpoint == loaded.endpoint
  IN IF loaded.thrown # ""
     THEN [router |-> router, thrown |-> loaded.thrown]
     ELSE IF ~endpoint.defined
     THEN [router |-> router, thrown |-> TypeErrorMessage]
     ELSE
       LET name == EndpointName(endpoint, file)
           r0 == IF endpoint.requestType \in RequestType
                 THEN Append(router, RouteLayer(endpoint.requestType,
                                                RoutePath(groupName, name),
                                                endpoint.options.middlewares,
                                                file))
                 ELSE router
           r1 == IF enableCors THEN Append(r0, CorsLayer)
                 ELSE IF endpoint.options.enableCors THEN Append(r0, CorsLayer)
                 ELSE r0
           r2 == IF endpoint.options.enableFileUpload
                 THEN Append(r1, FileUploadLayer) ELSE r1
       IN [router |-> r2,
           thrown |-> IF endpoint.requestType \in RequestType THEN ""
                      ELSE UnsupportedMessage]

\* buildEndpoint(file, groupName, router): the router after the call (router.use
\* and router.get/post/... mutate it in place, also when the call throws) and
\* the message of the error thrown, "" when it returns.
BuildEndpoint(file, groupName, router, enableCors, libraryInCwd) ==
  LET loaded == RequireDefault(file, libraryInCwd)
      endpoint == loaded.endpoint
  IN IF loaded.thrown # ""
     THEN [router |-> router, thrown |-> loaded.thrown]
     ELSE IF ~endpoint.defined
     THEN [router |-> router, thrown |-> TypeErrorMessage]
     ELSE
       LET name == EndpointName(endpoint, file)
           r1 == IF enableCors THEN Append(router, CorsLayer)
                 ELSE IF endpoint.options.enableCors THEN Append(router, CorsLayer)
                 ELSE router
           r2 == IF endpoint.options.enableFileUpload
                 THEN Append(r1, FileUploadLayer) ELSE r1
       IN IF endpoint.requestType \in RequestType
          THEN [router |-> Append(r2, RouteLayer(endpoint.requestType,
                                                 RoutePath(groupName, name),
                                                 endpoint.options.middlewares,
                                                 file)),
                thrown |-> ""]
          ELSE [router |-> r2, thrown |-> UnsupportedMessage]

(***************************************************************************)
(* The state.                                                              *)
(***************************************************************************)
VARIABLES
  props,           \* the constructor's argument: rootPath and options
  FUNCTION_NAME,   \* process.env.FUNCTION_NAME: <<>> when unset
  libraryInCwd,    \* whether functionParser.js lies in process.cwd()
  rootPath,        \* this.rootPath
  enableCors,      \* this.enableCors
  groupByFolder,   \* the constructor's local groupByFolder
  buildReactive,   \* the constructor's local buildReactive
  buildEndpoints,  \* the constructor's local buildEndpoints
  exports,         \* this.exports: group key -> (member name -> value)
  functionFiles,   \* buildReactiveFunctions' functionFiles
  fi,              \* the position of its forEach
  apiFiles,        \* buildRestfulApi's apiFiles
  ai,              \* the position of its forEach
  app,             \* the Application of buildRestfulApi: the routers mounted
                   \* on it by app.use('/', router), named by their group key
  groupRouters,    \* buildRestfulApi's groupRouters: group key -> the router's layers
  adapters,        \* the number of functions.https.onRequest calls made
  caught,          \* the message of the error caught by buildRestfulApi's catch
  error,           \* the message of the error that left the constructor
  pc               \* where the constructor is

vars == <<props, FUNCTION_NAME, libraryInCwd, rootPath, enableCors, groupByFolder, buildReactive,
          buildEndpoints, exports, functionFiles, fi, apiFiles, ai, app,
          groupRouters, adapters, caught, error, pc>>

config == <<props, FUNCTION_NAME, libraryInCwd, rootPath, enableCors, groupByFolder,
            buildReactive, buildEndpoints>>

NoRouters == [g \in {} |-> <<>>]

Init ==
  /\ props \in [rootPath : RootPaths, options : OptionsInputs]
  /\ FUNCTION_NAME \in FunctionNameEnv
  /\ libraryInCwd \in BOOLEAN
  /\ rootPath = ""
  /\ enableCors = FALSE
  /\ groupByFolder = FALSE
  /\ buildReactive = FALSE
  /\ buildEndpoints = FALSE
  /\ exports = InitialNamespace
  /\ functionFiles = <<>>
  /\ fi = 1
  /\ apiFiles = <<>>
  /\ ai = 1
  /\ app = <<>>
  /\ groupRouters = NoRouters
  /\ adapters = 0
  /\ caught = ""
  /\ error = ""
  /\ pc = "new"

\* options?.flag ?? default
Option(options, flag, default) ==
  IF options = <<>> THEN default ELSE options[1][flag]

\* The constructor up to the calls of the two passes (lines 43-58).
Constructor ==
  /\ pc = "new"
  /\ IF props.rootPath = ""
     THEN /\ error' = RootPathMessage
          /\ pc' = "failed"
          /\ UNCHANGED <<rootPath, enableCors, groupByFolder, buildReactive,
                         buildEndpoints>>
     ELSE /\ rootPath' = props.rootPath
          /\ enableCors' = Option(props.options, "enableCors", FALSE)
          /\ groupByFolder' = Option(props.options, "groupByFolder", TRUE)
          /\ buildReactive' = Option(props.options, "buildReactive", TRUE)
          /\ buildEndpoints' = Option(props.options, "buildEndpoints", TRUE)
          /\ pc' = IF buildReactive' THEN "buildReactiveFunctions"
                   ELSE IF buildEndpoints' THEN "buildRestfulApi"
                   ELSE "done"
          /\ error' = error
  /\ UNCHANGED <<props, FUNCTION_NAME, libraryInCwd, exports, functionFiles, fi, apiFiles, ai,
                 app, groupRouters, adapters, caught>>

\* buildReactiveFunctions up to its loop: the glob.
GlobFunctionFiles ==
  /\ pc = "buildReactiveFunctions"
  /\ functionFiles' \in
       GlobSync(FunctionFilesOnDisk, rootPath, ".function.js", MaxFunctionFiles)
  /\ fi' = 1
  /\ pc' = "functionFiles.forEach"
  /\ UNCHANGED <<config, exports, apiFiles, ai, app, groupRouters, adapters,
                 caught, error>>

\* this.exports[g] = {} when this.exports[g] is missing (line 101).
EnsureGroup(namespace, groupName) ==
  IF groupName \in DOMAIN namespace THEN namespace
  ELSE (groupName :> NoMembers) @@ namespace

\* One call of the callback of functionFiles.forEach.  A require that throws
\* leaves the constructor after line 101 has made sure the group exists.
ReactiveFile ==
  /\ pc = "functionFiles.forEach"
  /\ fi <= Len(functionFiles)
  /\ LET file == functionFiles[fi]
         groupName == GroupName(file, groupByFolder)
         loaded == Require(file, libraryInCwd)
     IN IF ~Selected(FUNCTION_NAME, FunctionName(file))
        THEN /\ fi' = fi + 1
             /\ UNCHANGED <<exports, error, pc>>
        ELSE IF loaded.thrown # ""
        THEN /\ exports' = EnsureGroup(exports, groupName)
             /\ error' = loaded.thrown
             /\ pc' = "failed"
             /\ fi' = fi
        ELSE /\ exports' = MergeExports(exports, groupName, loaded.module)
             /\ fi' = fi + 1
             /\ UNCHANGED <<error, pc>>
  /\ UNCHANGED <<config, functionFiles, apiFiles, ai, app, groupRouters, adapters,
                 caught>>

\* buildReactiveFunctions returns; the constructor goes on (lines 62-64).
ReactiveBuilt ==
  /\ pc = "functionFiles.forEach"
  /\ fi > Len(functionFiles)
  /\ pc' = IF buildEndpoints THEN "buildRestfulApi" ELSE "done"
  /\ UNCHANGED <<config, exports, functionFiles, fi, apiFiles, ai, app,
                 groupRouters, adapters, caught, error>>

\* buildRestfulApi up to its loop: the glob, express(), new Map().
GlobApiFiles ==
  /\ pc = "buildRestfulApi"
  /\ apiFiles' \in GlobSync(ApiFilesOnDisk, rootPath, ".endpoint.js", MaxApiFiles)
  /\ ai' = 1
  /\ app' = <<>>
  /\ groupRouters' = NoRouters
  /\ pc' = "apiFiles.forEach"
  /\ UNCHANGED <<config, exports, functionFiles, fi, adapters, caught, error>>

\* Faulty variant of EndpointFile: the router is mounted and the adapter
\* published before buildEndpoint is tried, so a failing file publishes too.
EndpointFile_PublishFirst ==
  /\ pc = "apiFiles.forEach"
  /\ ai <= Len(apiFiles)
  /\ LET file == apiFiles[ai]
         groupName == GroupName(file, groupByFolder)
         router == IF groupName \in DOMAIN groupRouters
                   THEN groupRouters[groupName] ELSE <<>>
         built == BuildEndpoint(file, groupName, router, enableCors, libraryInCwd)
     IN /\ groupRouters' = (groupName :> built.router) @@ groupRouters
        /\ app' = Append(app, groupName)
        /\ adapters' = adapters + 1
        /\ exports' = PublishApi(exports, groupName, adapters + 1)
        /\ IF built.thrown # ""
           THEN /\ caught' = built.thrown
                /\ error' = WrappedMessage(file, groupName)
                /\ pc' = "failed"
                /\ ai' = ai
           ELSE /\ ai' = ai + 1
                /\ UNCHANGED <<caught, error, pc>>
  /\ UNCHANGED <<config, functionFiles, fi, apiFiles>>

\* One call of the callback of apiFiles.forEach, buildEndpoint included.
EndpointFile ==
  /\ pc = "apiFiles.forEach"
  /\ ai <= Len(apiFiles)
  /\ LET file == apiFiles[ai]
         groupName == GroupName(file, groupByFolder)
         router == IF groupName \in DOMAIN groupRouters
                   THEN groupRouters[groupName] ELSE <<>>
         built == BuildEndpoint(file, groupName, router, enableCors, libraryInCwd)
     IN /\ groupRouters' = (groupName :> built.router) @@ groupRouters
        /\ IF built.thrown # ""
           THEN /\ caught' = built.thrown
                /\ error' = WrappedMessage(file, groupName)
                /\ pc' = "failed"
                /\ UNCHANGED <<app, exports, adapters, ai>>
           ELSE /\ app' = Append(app, groupName)
                /\ adapters' = adapters + 1
                /\ exports' = PublishApi(exports, groupName, adapters + 1)
                /\ ai' = ai + 1
                /\ UNCHANGED <<caught, error, pc>>
  /\ UNCHANGED <<config, functionFiles, fi, apiFiles>>

\* buildRestfulApi and the constructor return.
RestfulBuilt ==
  /\ pc = "apiFiles.forEach"
  /\ ai > Len(apiFiles)
  /\ pc' = "done"
  /\ UNCHANGED <<config, exports, functionFiles, fi, apiFiles, ai, app,
                 groupRouters, adapters, caught, error>>

Next ==
  \/ Constructor
  \/ GlobFunctionFiles
  \/ ReactiveFile
  \/ ReactiveBuilt
  \/ GlobApiFiles
  \/ EndpointFile
  \/ RestfulBuilt

Spec == Init /\ [][Next]_vars

(***************************************************************************)
(* What a request meets.  express runs the layers of a router in the order *)
(* they were registered (router.use, router.get, ...) and the routers of   *)
(* an Application in the order app.use mounted them; cors() and            *)
(* fileUpload() pass a GET/POST/PUT/DELETE/PATCH request on, a route whose  *)
(* method and path match answers it.                                       *)
(***************************************************************************)

\* One router: the middleware met and the handler reached ("" when none).
RouterHandle(stack, method, path) ==
  LET hits == {k \in DOMAIN stack : /\ stack[k].kind = "route"
                                    /\ stack[k].method = method
                                    /\ stack[k].path = path}
      stop == IF hits = {} THEN Len(stack) + 1
              ELSE CHOOSE k \in hits : \A j \in hits : k <= j
  IN [passed |-> {stack[k].kind : k \in {j \in 1..(stop - 1) : stack[j].kind # "route"}},
      hit |-> IF hits = {} THEN "" ELSE stack[stop].handler]

\* The Application: its mounted routers in turn, up to the first that answers.
AppHandle(mounted, routers, method, path) ==
  LET walks == [i \in DOMAIN mounted |-> RouterHandle(routers[mounted[i]], method, path)]
      hits == {i \in DOMAIN mounted : walks[i].hit # ""}
      stop == IF hits = {} THEN Len(mounted)
              ELSE CHOOSE i \in hits : \A j \in hits : i <= j
  IN [passed |-> UNION {walks[i].passed : i \in 1..stop},
      hit |-> IF hits = {} THEN "" ELSE walks[stop].hit]

\* The routers mounted on the Application an adapter wraps: every
\* functions.https.onRequest(app) call is given the one app of buildRestfulApi.
MountedRouters(adapter) == {app[i] : i \in DOMAIN app}

(***************************************************************************)
(* Vocabulary of the properties.                                           *)
(***************************************************************************)

ApiGroup(i) == GroupName(apiFiles[i], groupByFolder)
ApiDescriptor(i) == EndpointModule(apiFiles[i])
ApiPath(i) == RoutePath(ApiGroup(i), EndpointName(ApiDescriptor(i), apiFiles[i]))
EndpointGroups == {ApiGroup(i) : i \in DOMAIN apiFiles}
FunctionGroup(i) == GroupName(functionFiles[i], groupByFolder)

HasAdapter(g) ==
  /\ g \in DOMAIN exports
  /\ "api" \in DOMAIN exports[g]
  /\ exports[g]["api"].kind = "adapter"

HasRoute(g, method, path, handler) ==
  /\ g \in DOMAIN groupRouters
  /\ \E k \in DOMAIN groupRouters[g] :
       groupRouters[g][k] = RouteLayer(method, path, groupRouters[g][k].middlewares,
                                       handler)

\* The routes registered anywhere with the handler of file f.
RoutesOf(f) ==
  {<<g, k>> \in UNION {{g} \X DOMAIN groupRouters[g] : g \in DOMAIN groupRouters} :
     groupRouters[g][k].kind = "route" /\ groupRouters[g][k].handler = f}

SelectorUnset == FUNCTION_NAME = <<>> \/ FUNCTION_NAME[1] = ""

(***************************************************************************)
(* C1.  After buildRestfulApi completes, the adapter published at          *)
(* namespace[g].api is dedicated to g: the only router mounted on it is    *)
(* g's, a route of a file of another group h is not reachable through it,  *)
(* and the adapters of two different groups are distinct instances.        *)
(***************************************************************************)
C1_DedicatedAdapter ==
  pc = "done" =>
    \A g \in EndpointGroups :
      /\ HasAdapter(g)
      /\ MountedRouters(exports[g]["api"]) = {g}
      /\ \A i \in DOMAIN apiFiles :
           ApiGroup(i) # g =>
             AppHandle(app, groupRouters, ApiDescriptor(i).requestType,
                       ApiPath(i)).hit # apiFiles[i]
      /\ \A h \in EndpointGroups \ {g} : exports[h]["api"] # exports[g]["api"]

(***************************************************************************)
(* C2.  After a construction that completes without error, every           *)
(* discovered endpoint file f with group g, method m and resolved name n   *)
(* has the route (m, /g/n) on the adapter published at namespace[g].api:   *)
(* the route is on g's router, g's router is mounted on the adapter, and a *)
(* request (m, /g/n) is answered by a handler registered for (m, /g/n) in  *)
(* g, so that a GET and a POST file of one name do not replace each other. *)
(***************************************************************************)
C2_AllRoutesPresent ==
  pc = "done" =>
    \A i \in DOMAIN apiFiles :
      LET g == ApiGroup(i)
          m == ApiDescriptor(i).requestType
          answer == AppHandle(app, groupRouters, m, ApiPath(i))
      IN /\ HasAdapter(g)
         /\ g \in MountedRouters(exports[g]["api"])
         /\ HasRoute(g, m, ApiPath(i), apiFiles[i])
         /\ answer.hit # ""
         /\ HasRoute(g, m, ApiPath(i), answer.hit)

\* Two files of one group and one name, GET and POST, have been registered.
C2_Witness ==
  /\ pc = "done"
  /\ \E i, j \in DOMAIN apiFiles :
       /\ ApiGroup(i) = ApiGroup(j)
       /\ ApiPath(i) = ApiPath(j)
       /\ ApiDescriptor(i).requestType = "GET"
       /\ ApiDescriptor(j).requestType = "POST"
       /\ Len(apiFiles) > 2

\* s without its trailing tag, s itself when it does not end with the tag.
StripSuffix(s, tag) ==
  IF EndsWith(s, tag) THEN SubSeq(s, 1, Len(s) - Len(tag)) ELSE s

(***************************************************************************)
(* C3.  Every endpoint file's route is registered at exactly               *)
(* /{group}/{name}: group is the file's group key, name the descriptor's   *)
(* name when it has one, else the file name with the trailing '.endpoint'  *)
(* tag stripped; the file has exactly one route, under its request method. *)
(***************************************************************************)
C3_RoutePath ==
  \A i \in 1..(ai - 1) :
    LET f == apiFiles[i]
        d == ApiDescriptor(i)
        name == IF d.name # <<>> /\ d.name[1] # "" THEN d.name[1]
                ELSE StripSuffix(ParseName(f), ".endpoint")
    IN /\ Cardinality(RoutesOf(f)) = 1
       /\ \A r \in RoutesOf(f) :
            /\ r[1] = ApiGroup(i)
            /\ groupRouters[r[1]][r[2]].method = d.requestType
            /\ groupRouters[r[1]][r[2]].path = "/" \o ApiGroup(i) \o "/" \o name

(***************************************************************************)
(* C4.  A descriptor whose request type is not GET, POST, PUT, DELETE or   *)
(* PATCH makes construction throw: no route is registered for that file,   *)
(* and the error that leaves the constructor identifies the cause as an    *)
(* unsupported request type.                                               *)
(***************************************************************************)
C4_UnsupportedRequestType ==
  (pc = "failed" /\ caught = UnsupportedMessage) =>
    /\ RoutesOf(apiFiles[ai]) = {}
    /\ Contains(error, "RequestType")

(***************************************************************************)
(* C5.  A failure at endpoint file k aborts the pass without rollback: the *)
(* api entry of every group with a file before k is still published, every *)
(* member merged by the reactive pass is still there, no file from k on    *)
(* has been processed, and a group whose first endpoint file is k has no   *)
(* api entry published by this pass.                                       *)
(***************************************************************************)
C5_NoRollback ==
  (pc = "failed" /\ caught # "") =>
    /\ \A j \in 1..(ai - 1) : HasAdapter(ApiGroup(j))
    /\ \A i \in DOMAIN functionFiles :
         Selected(FUNCTION_NAME, FunctionName(functionFiles[i])) =>
           /\ FunctionGroup(i) \in DOMAIN exports
           /\ DOMAIN FunctionModule(functionFiles[i]) \subseteq DOMAIN exports[FunctionGroup(i)]
    /\ \A k \in DOMAIN InitialNamespace :
         /\ k \in DOMAIN exports
         /\ DOMAIN InitialNamespace[k] \subseteq DOMAIN exports[k]
    /\ \A j \in ai..Len(apiFiles) : RoutesOf(apiFiles[j]) = {}
    /\ adapters = ai - 1
    /\ Len(app) = ai - 1
    /\ \A g \in EndpointGroups :
         (\A j \in 1..(ai - 1) : ApiGroup(j) # g) => ~HasAdapter(g)

\* File k failed after an earlier group was published and reactive members
\* were merged; k is the first file of its group and a file follows it.
C5_Witness ==
  /\ pc = "failed"
  /\ caught # ""
  /\ ai > 1
  /\ ai < Len(apiFiles)
  /\ \A j \in 1..(ai - 1) : ApiGroup(j) # ApiGroup(ai)
  /\ functionFiles # <<>>
  /\ SelectorUnset

\* A CORS layer is registered on the router before its k-th layer.
CorsBefore(stack, k) == \E j \in 1..(k - 1) : stack[j].kind = "cors"

(***************************************************************************)
(* C6.  CORS scope on a group's router follows registration order: with    *)
(* global enableCors on, a CORS layer precedes every route; with it off, a *)
(* route of group g is preceded by a CORS layer on g's router exactly when *)
(* its file, or a file of g processed before it, has options.enableCors.   *)
(***************************************************************************)
C6_CorsFollowsOrder ==
  \A i \in 1..(ai - 1) :
    \A r \in RoutesOf(apiFiles[i]) :
      CorsBefore(groupRouters[r[1]], r[2]) <=>
        \/ enableCors
        \/ \E j \in 1..i : /\ ApiGroup(j) = ApiGroup(i)
                           /\ ApiDescriptor(j).options.enableCors

\* With global CORS off, one router holds a route registered before the
\* first CORS layer and a route registered after it.
C6_Witness ==
  /\ ~enableCors
  /\ \E g \in DOMAIN groupRouters :
       \E k1, k2 \in DOMAIN groupRouters[g] :
         /\ groupRouters[g][k1].kind = "route"
         /\ groupRouters[g][k2].kind = "route"
         /\ ~CorsBefore(groupRouters[g], k1)
         /\ CorsBefore(groupRouters[g], k2)

\* No two discovered background-function files derive the same logical name.
DistinctLogicalNames ==
  \A i, j \in DOMAIN functionFiles :
    i # j => FunctionName(functionFiles[i]) # FunctionName(functionFiles[j])

(***************************************************************************)
(* C7 as claimed.  With no selector set and distinct logical names, every  *)
(* member exported by every background-function file is under              *)
(* namespace[group] with the value that file exported, also when files     *)
(* share a group and when the group has endpoint files.                    *)
(***************************************************************************)
C7_EveryExportKeepsItsValue ==
  (pc = "done" /\ buildReactive /\ SelectorUnset /\ DistinctLogicalNames) =>
    \A i \in DOMAIN functionFiles :
      \A m \in DOMAIN FunctionModule(functionFiles[i]) :
        /\ FunctionGroup(i) \in DOMAIN exports
        /\ m \in DOMAIN exports[FunctionGroup(i)]
        /\ exports[FunctionGroup(i)][m] = FunctionModule(functionFiles[i])[m]

(***************************************************************************)
(* C7 as amended.  With no selector set and distinct logical names, every  *)
(* member name exported by every background-function file is under         *)
(* namespace[group] after construction; it holds the value that file       *)
(* exported unless a file of the same group later in traversal order       *)
(* exports the same member name, or the member is named api and the group  *)
(* has an endpoint file.                                                   *)
(***************************************************************************)
C7_EveryExportPresent ==
  (pc = "done" /\ buildReactive /\ SelectorUnset /\ DistinctLogicalNames) =>
    \A i \in DOMAIN functionFiles :
      \A m \in DOMAIN FunctionModule(functionFiles[i]) :
        LET g == FunctionGroup(i)
            overwritten ==
              \/ \E j \in (i + 1)..Len(functionFiles) :
                   FunctionGroup(j) = g /\ m \in DOMAIN FunctionModule(functionFiles[j])
              \/ m = "api" /\ g \in EndpointGroups
        IN /\ g \in DOMAIN exports
           /\ m \in DOMAIN exports[g]
           /\ ~overwritten => exports[g][m] = FunctionModule(functionFiles[i])[m]

\* Two background-function files shared a group that also has an endpoint file.
C7_Witness ==
  /\ pc = "done"
  /\ buildReactive
  /\ SelectorUnset
  /\ DistinctLogicalNames
  /\ \E i, j \in DOMAIN functionFiles :
       /\ i < j
       /\ FunctionGroup(i) = FunctionGroup(j)
       /\ DOMAIN FunctionModule(functionFiles[i]) \ DOMAIN FunctionModule(functionFiles[j]) # {}
       /\ FunctionGroup(i) \in EndpointGroups

\* The files the selector lets through among those the loop has visited, and
\* the member names group g must then hold.
MergedFiles ==
  {i \in 1..(fi - 1) :
     SelectorUnset \/ FUNCTION_NAME[1] = FunctionName(functionFiles[i])}

C8_ExpectedMembers(g) ==
  (IF g \in DOMAIN InitialNamespace THEN DOMAIN InitialNamespace[g] ELSE {}) \cup
  UNION {DOMAIN FunctionModule(functionFiles[i]) : i \in {j \in MergedFiles : FunctionGroup(j) = g}}

(***************************************************************************)
(* C8.  With FUNCTION_NAME set to v, buildReactiveFunctions merges exactly *)
(* the files whose derived logical name is v, whatever their group; every  *)
(* other file is skipped without error and adds nothing to the namespace,  *)
(* not even an empty group.  Unset or empty, every file is merged.  The    *)
(* namespace is the caller's plus, per group, the members of the files     *)
(* merged so far; only a file the selector lets through can fail to load,  *)
(* and it then leaves at most its own, possibly empty, group.              *)
(***************************************************************************)
C8_SelectorFilters ==
  LET failed == pc = "failed" /\ caught = "" /\ error # RootPathMessage
  IN (failed \/ pc \in {"functionFiles.forEach", "buildRestfulApi"}
        \/ (pc = "done" /\ buildReactive /\ ~buildEndpoints)) =>
       /\ failed => (SelectorUnset \/ FUNCTION_NAME[1] = FunctionName(functionFiles[fi]))
       /\ DOMAIN exports =
            DOMAIN InitialNamespace \cup {FunctionGroup(i) : i \in MergedFiles}
              \cup (IF failed THEN {FunctionGroup(fi)} ELSE {})
       /\ \A g \in DOMAIN exports :
            /\ DOMAIN exports[g] = C8_ExpectedMembers(g)
            /\ \A m \in DOMAIN exports[g] :
                 LET writers == {i \in MergedFiles :
                                   /\ FunctionGroup(i) = g
                                   /\ m \in DOMAIN FunctionModule(functionFiles[i])}
                 IN IF writers = {} THEN exports[g][m] = InitialNamespace[g][m]
                    ELSE \E i \in writers :
                           /\ \A j \in writers : j <= i
                           /\ exports[g][m] = FunctionModule(functionFiles[i])[m]

\* The pass ended with FUNCTION_NAME set: one file was merged and one, whose
\* group nothing else created, was skipped.
C8_Witness ==
  /\ pc = "buildRestfulApi"
  /\ ~SelectorUnset
  /\ MergedFiles # {}
  /\ \E i \in DOMAIN functionFiles :
       i \notin MergedFiles /\ FunctionGroup(i) \notin DOMAIN exports

\* Only the members named in `members` of group g may differ after the step.
OnlyChanges(g, members) ==
  /\ \A k \in DOMAIN exports :
       /\ k \in DOMAIN exports'
       /\ DOMAIN exports[k] \subseteq DOMAIN exports'[k]
  /\ \A k \in DOMAIN exports' :
       IF k # g
       THEN k \in DOMAIN exports /\ exports'[k] = exports[k]
       ELSE \A m \in DOMAIN exports'[k] \ members :
              /\ k \in DOMAIN exports
              /\ m \in DOMAIN exports[k]
              /\ exports'[k][m] = exports[k][m]

\* What one step may do to the namespace, by the callback that takes it.
C9_Frame ==
  IF pc = "apiFiles.forEach" /\ ai <= Len(apiFiles)
  THEN OnlyChanges(ApiGroup(ai), {"api"})
  ELSE IF pc = "functionFiles.forEach" /\ fi <= Len(functionFiles)
  THEN OnlyChanges(FunctionGroup(fi), DOMAIN FunctionModule(functionFiles[fi]))
  ELSE exports' = exports

(***************************************************************************)
(* C9.  The registrars only insert or merge into the caller's namespace.   *)
(* No step removes a key or a member.  Processing an endpoint file of      *)
(* group g changes or creates only namespace[g].api; processing a          *)
(* background-function file of group g changes or creates only the members *)
(* of namespace[g] that the file exports; every other member of g, every   *)
(* other group and every key that is no discovered file's group stay as    *)
(* they were, and no other step touches the namespace.                     *)
(***************************************************************************)
C9_OnlyInsertOrMerge == [][C9_Frame]_vars

\* An endpoint file was processed for a group that already held members of
\* a background-function file, next to the caller's own keys.
C9_Witness ==
  /\ pc = "apiFiles.forEach"
  /\ ai > 1
  /\ fi > 1
  /\ \E g \in DOMAIN exports :
       /\ HasAdapter(g)
       /\ \E m \in DOMAIN exports[g] : exports[g][m].kind = "export"
  /\ "legacy" \in DOMAIN exports
  /\ "legacy" \notin EndpointGroups

(***************************************************************************)
(* C10.  Per-endpoint middleware flags do not cross group boundaries: with *)
(* global enableCors off, a request for a route of group h, served through *)
(* a published adapter, passes CORS middleware only if a file of h has     *)
(* options.enableCors, and file-upload middleware only if a file of h has  *)
(* options.enableFileUpload.                                               *)
(***************************************************************************)
C10_FlagsStayInGroup ==
  (pc = "done" /\ ~enableCors) =>
    \A i \in DOMAIN apiFiles :
      LET h == ApiGroup(i)
          met == AppHandle(app, groupRouters, ApiDescriptor(i).requestType,
                           ApiPath(i)).passed
      IN /\ "cors" \in met =>
              \E j \in DOMAIN apiFiles :
                ApiGroup(j) = h /\ ApiDescriptor(j).options.enableCors
         /\ "fileUpload" \in met =>
              \E j \in DOMAIN apiFiles :
                ApiGroup(j) = h /\ ApiDescriptor(j).options.enableFileUpload

====
